---- MODULE Spec2Model ----
(***************************************************************************)
(* A model of aeonflux's non-interactive zero-knowledge proofs             *)
(* (src/src/nizk.rs): ProofOfIssuance, ProofOfEncryption and               *)
(* ProofOfValidCredential over a Schnorr constraint system.                *)
(*                                                                         *)
(* The prime-order group is modelled as the free module (Z_L)^Dim: every   *)
(* system generator is a unit vector, so no discrete-log relation holds    *)
(* between two generators.  Scalars are integers modulo L.                 *)
(***************************************************************************)
EXTENDS Integers, Sequences, FiniteSets, TLC

\* ------------------------------------------------------------------ bounds

\* NUMBER_OF_ATTRIBUTES of the system parameters under test.
N == 3

\* Input scalars (key material, t, z, attribute scalars) range over 0..MaxScalar.
MaxScalar == 2

\* Seeds of the prover's blinding stream range over 0..MaxSeed.
MaxSeed == 1

\* Challenges the transcript hash hands the prover range over 0..MaxChallenge.
MaxChallenge == 1

\* Plaintext blocks are numbered 0..MaxPlaintext.
MaxPlaintext == 1

\* Order of the scalar field (the model's stand-in for the group order).
L == 5

\* ------------------------------------------------------- scalars and points

Scalars == 0..(L - 1)

InputScalars == 0..MaxScalar

Seeds == 0..MaxSeed

Challenges == 0..MaxChallenge

Dim == 10 + 2 * N

Min(a, b) == IF a < b THEN a ELSE b

SNeg(s) == (L - (s % L)) % L

Identity == [k \in 1..Dim |-> 0]

Unit(j) == [k \in 1..Dim |-> IF k = j THEN 1 ELSE 0]

PAdd(P, Q) == [k \in 1..Dim |-> (P[k] + Q[k]) % L]

PMul(P, s) == [k \in 1..Dim |-> (P[k] * s) % L]

PNeg(P) == [k \in 1..Dim |-> (L - P[k]) % L]

PSub(P, Q) == PAdd(P, PNeg(Q))

RECURSIVE PSum(_)
PSum(ps) == IF Len(ps) = 0 THEN Identity ELSE PAdd(ps[1], PSum(Tail(ps)))

\* RistrettoPoint::multiscalar_mul: the sum of scalars[i] * points[i].
MultiscalarMul(scalars, points) ==
    PSum([i \in 1..Len(scalars) |-> PMul(points[i], scalars[i])])

\* RistrettoPoint::compress: the canonical encoding of a point.
Compress(P) == [canonical |-> TRUE, bytes |-> P]

\* CompressedRistretto::decompress.
Decompress(e) == e.bytes

\* ----------------------------------------------------------- parameters

\* An independent base for points that no system generator spans.
B == Unit(10)

system_parameters ==
    [ NUMBER_OF_ATTRIBUTES |-> N,
      G         |-> Unit(1),
      G_V       |-> Unit(2),
      G_w       |-> Unit(3),
      G_w_prime |-> Unit(4),
      G_x_0     |-> Unit(5),
      G_x_1     |-> Unit(6),
      G_a       |-> Unit(7),
      G_a0      |-> Unit(8),
      G_a1      |-> Unit(9),
      G_y       |-> [i \in 1..N |-> Unit(10 + i)],
      G_m       |-> [i \in 1..N |-> Unit(10 + N + i)] ]

\* SecretKey::generate: w, w', x_0, x_1 and one y_i per attribute.
SecretKeys ==
    { [ w |-> w, w_prime |-> (w + 1) % L, x_0 |-> (x_1 + 2) % L, x_1 |-> x_1,
        y |-> [i \in 1..N |-> (w + i) % L] ] : w \in InputScalars, x_1 \in InputScalars }

\* IssuerParameters::generate:
\*   C_W = w*G_w + w'*G_w',  I = -G_V + x_0*G_x_0 + x_1*G_x_1 + sum y_i*G_y[i].
IssuerParametersGenerate(sp, sk) ==
    [ C_W |-> PAdd(PMul(sp.G_w, sk.w), PMul(sp.G_w_prime, sk.w_prime)),
      I   |-> PAdd(PAdd(PNeg(sp.G_V),
                        PAdd(PMul(sp.G_x_0, sk.x_0), PMul(sp.G_x_1, sk.x_1))),
                   MultiscalarMul(sk.y, sp.G_y)) ]

\* The four attribute variants.
PublicScalar(m) == [kind |-> "PublicScalar", scalar |-> m, point |-> Identity]

SecretScalar(m) == [kind |-> "SecretScalar", scalar |-> m, point |-> Identity]

PublicPoint(P) == [kind |-> "PublicPoint", scalar |-> 0, point |-> P]

SecretPoint(P) == [kind |-> "SecretPoint", scalar |-> 0, point |-> P]

\* The in-source test's pattern of attributes, rotated by k.
AttributePattern(j) ==
    CASE j % 4 = 0 -> SecretScalar(2)
      [] j % 4 = 1 -> PublicScalar(1)
      [] j % 4 = 2 -> PublicPoint(B)
      [] OTHER     -> SecretPoint(PMul(B, 2))

\* Attribute vectors of N entries, and malformed ones of N - 1 and of none.
AttributeVectors ==
    { [i \in 1..len |-> AttributePattern(i + k)] : len \in {N - 1, N}, k \in 0..3 }
        \cup { <<>> }

\* Messages::from_attributes: M_i per attribute variant.
MessagesFromAttributes(attributes, sp) ==
    [i \in 1..Len(attributes) |->
        IF attributes[i].kind \in {"PublicScalar", "SecretScalar"}
        THEN PMul(sp.G_m[i], attributes[i].scalar)
        ELSE attributes[i].point]

\* The aMAC of a credential: V = w*G + (x_0 + x_1*t)*U + sum y_i*M_i.
AmacV(sp, sk, t, U, messages) ==
    LET n == Min(Len(sk.y), Len(messages))
    IN PAdd(PAdd(PMul(sp.G, sk.w), PMul(U, (sk.x_0 + sk.x_1 * t) % L)),
            MultiscalarMul(SubSeq(sk.y, 1, n), SubSeq(messages, 1, n)))

\* Issuer::issue.
IssueCredential(sp, sk, attributes, t, U) ==
    [ amac |-> [t |-> t, U |-> U,
                V |-> AmacV(sp, sk, t, U, MessagesFromAttributes(attributes, sp))],
      attributes |-> attributes ]

\* --------------------------------------------------------- the proof engine

\* Transcript::new followed by Prover::new (the domain separator of the proof).
ProverNew(transcript_label, proof_label) ==
    [ transcript   |-> << <<"transcript", transcript_label>>, <<"dom-sep", proof_label>> >>,
      scalars      |-> <<>>,
      points       |-> <<>>,
      point_labels |-> <<>>,
      constraints  |-> <<>> ]

\* Prover::allocate_scalar; the handle of the new variable is Len(scalars).
ProverAllocateScalar(pr, label, assignment) ==
    [pr EXCEPT !.transcript = Append(@, <<"scvar", label>>),
               !.scalars    = Append(@, assignment)]

\* Prover::allocate_point; the handle of the new variable is Len(points).
ProverAllocatePoint(pr, label, assignment) ==
    [pr EXCEPT !.transcript   = Append(@, <<"ptvar", label, Compress(assignment)>>),
               !.points       = Append(@, assignment),
               !.point_labels = Append(@, label)]

RECURSIVE ProverAllocateScalars(_, _, _)
ProverAllocateScalars(pr, label, values) ==
    IF Len(values) = 0 THEN pr
    ELSE ProverAllocateScalars(ProverAllocateScalar(pr, label, values[1]), label, Tail(values))

RECURSIVE ProverAllocatePoints(_, _, _)
ProverAllocatePoints(pr, label, values) ==
    IF Len(values) = 0 THEN pr
    ELSE ProverAllocatePoints(ProverAllocatePoint(pr, label, values[1]), label, Tail(values))

\* The handles of the k variables allocated after `before` were.
Handles(before, k) == [i \in 1..k |-> before + i]

\* iter().zip(): pairs up to the shorter length.
Zip(xs, ys) == [i \in 1..Min(Len(xs), Len(ys)) |-> <<xs[i], ys[i]>>]

\* SchnorrCS::constrain.
Constrain(cs, lhs, rhs) ==
    [cs EXCEPT !.constraints = Append(@, [lhs |-> lhs, rhs |-> rhs])]

\* The prover's blinding factors, one per secret variable, from its rng.
Blindings(seed, k) == [i \in 1..k |-> (seed + i) % L]

RECURSIVE AppendCommitments(_, _, _, _)
AppendCommitments(transcript, constraints, labels, commitments) ==
    IF Len(constraints) = 0 THEN transcript
    ELSE AppendCommitments(
            Append(transcript,
                   <<"blindcom", labels[constraints[1].lhs], Compress(commitments[1])>>),
            Tail(constraints), labels, Tail(commitments))

\* Prover::prove_impl up to the challenge: the transcript with the commitment
\* of every constraint appended.
ProverCommit(pr, seed) ==
    LET blindings == Blindings(seed, Len(pr.scalars))
        commitments ==
            [c \in 1..Len(pr.constraints) |->
                MultiscalarMul(
                    [j \in 1..Len(pr.constraints[c].rhs) |-> blindings[pr.constraints[c].rhs[j][1]]],
                    [j \in 1..Len(pr.constraints[c].rhs) |-> pr.points[pr.constraints[c].rhs[j][2]]])]
    IN AppendCommitments(pr.transcript, pr.constraints, pr.point_labels, commitments)

\* Prover::prove_compact: (challenge, responses), response_i = s_i * c + b_i.
ProveCompact(pr, seed, challenge) ==
    LET blindings == Blindings(seed, Len(pr.scalars))
    IN [ challenge |-> challenge,
         responses |-> [i \in 1..Len(pr.scalars) |->
                            (pr.scalars[i] * challenge + blindings[i]) % L] ]

\* Transcript::new followed by Verifier::new.
VerifierNew(transcript_label, proof_label) ==
    [ transcript   |-> << <<"transcript", transcript_label>>, <<"dom-sep", proof_label>> >>,
      num_scalars  |-> 0,
      points       |-> <<>>,
      point_labels |-> <<>>,
      constraints  |-> <<>>,
      error        |-> "none" ]

\* Verifier::allocate_scalar.  After a failed `?` the caller has returned.
VerifierAllocateScalar(v, label) ==
    IF v.error # "none" THEN v
    ELSE [v EXCEPT !.transcript  = Append(@, <<"scvar", label>>),
                   !.num_scalars = @ + 1]

\* Verifier::allocate_point: fails on an encoding that is not canonical.
VerifierAllocatePoint(v, label, assignment) ==
    IF v.error # "none" THEN v
    ELSE IF ~assignment.canonical THEN [v EXCEPT !.error = "ProofError::VerificationFailure"]
    ELSE [v EXCEPT !.transcript   = Append(@, <<"ptvar", label, assignment>>),
                   !.points       = Append(@, assignment),
                   !.point_labels = Append(@, label)]

\* The loop over the y labels run one time too few.
RECURSIVE VerifierAllocateScalarsShort(_, _, _)
VerifierAllocateScalarsShort(v, label, k) ==
    IF k <= 1 THEN v
    ELSE VerifierAllocateScalarsShort(VerifierAllocateScalar(v, label), label, k - 1)

\* for i in 0..NUMBER_OF_ATTRIBUTES { y.push(verifier.allocate_scalar(b"y")) }
RECURSIVE VerifierAllocateScalars(_, _, _)
VerifierAllocateScalars(v, label, k) ==
    IF k = 0 THEN v
    ELSE VerifierAllocateScalars(VerifierAllocateScalar(v, label), label, k - 1)

RECURSIVE VerifierAllocatePoints(_, _, _)
VerifierAllocatePoints(v, label, values) ==
    IF Len(values) = 0 THEN v
    ELSE VerifierAllocatePoints(VerifierAllocatePoint(v, label, values[1]), label, Tail(values))

\* Verifier::verify_compact up to the challenge: the commitments recomputed
\* from the responses and the claimed challenge, appended to the transcript.
VerifierRecommit(v, proof) ==
    LET points  == [i \in 1..Len(v.points) |-> Decompress(v.points[i])]
        minus_c == SNeg(proof.challenge)
        commitments ==
            [c \in 1..Len(v.constraints) |->
                MultiscalarMul(
                    Append([j \in 1..Len(v.constraints[c].rhs) |->
                                proof.responses[v.constraints[c].rhs[j][1]]], minus_c),
                    Append([j \in 1..Len(v.constraints[c].rhs) |->
                                points[v.constraints[c].rhs[j][2]]], points[v.constraints[c].lhs]))]
    IN AppendCommitments(v.transcript, v.constraints, v.point_labels, commitments)

\* Transcript::get_challenge as a random oracle that never collides: the
\* transcript the prover queried gets the prover's challenge back, any other
\* transcript gets another scalar.
GetChallenge(orcl, transcript) ==
    IF transcript = orcl.transcript THEN orcl.challenge ELSE (orcl.challenge + 1) % L

\* Verifier::verify_compact.
VerifyCompact(v, proof, orcl) ==
    IF Len(proof.responses) # v.num_scalars THEN "ProofError::VerificationFailure"
    ELSE IF GetChallenge(orcl, VerifierRecommit(v, proof)) = proof.challenge
         THEN "Ok"
         ELSE "ProofError::VerificationFailure"

\* ------------------------------------------------------- ProofOfIssuance

\* ProofOfIssuance::prove up to prove_compact: the prover with every secret,
\* every public and the three constraints.
IssuanceProver(secret_key, sp, ip, cred) ==
    LET p0 == ProverNew("2019/1416 anonymous credential", "2019/1416 issuance proof")
        p1 == ProverAllocateScalar(p0, "w", secret_key.w)
        w  == Len(p1.scalars)
        p2 == ProverAllocateScalar(p1, "w'", secret_key.w_prime)
        w_prime == Len(p2.scalars)
        p3 == ProverAllocateScalar(p2, "x_0", secret_key.x_0)
        x_0 == Len(p3.scalars)
        p4 == ProverAllocateScalar(p3, "x_1", secret_key.x_1)
        x_1 == Len(p4.scalars)
        p5 == ProverAllocateScalars(p4, "y", secret_key.y)
        y  == Handles(Len(p4.scalars), Len(secret_key.y))
        p6 == ProverAllocateScalar(p5, "1", 1)
        one == Len(p6.scalars)
        p7 == ProverAllocateScalar(p6, "t", cred.amac.t)
        t  == Len(p7.scalars)
        q1 == ProverAllocatePoint(p7, "-G_V", PNeg(sp.G_V))
        neg_G_V == Len(q1.points)
        q2 == ProverAllocatePoint(q1, "G", sp.G)
        q3 == ProverAllocatePoint(q2, "G_w", sp.G_w)
        G_w == Len(q3.points)
        q4 == ProverAllocatePoint(q3, "G_w_prime", sp.G_w_prime)
        G_w_prime == Len(q4.points)
        q5 == ProverAllocatePoint(q4, "G_x_0", sp.G_x_0)
        G_x_0 == Len(q5.points)
        q6 == ProverAllocatePoint(q5, "G_x_1", sp.G_x_1)
        G_x_1 == Len(q6.points)
        q7 == ProverAllocatePoints(q6, "G_y", sp.G_y)
        G_y == Handles(Len(q6.points), Len(sp.G_y))
        q8 == ProverAllocatePoint(q7, "C_W", ip.C_W)
        C_W == Len(q8.points)
        q9 == ProverAllocatePoint(q8, "I", ip.I)
        I  == Len(q9.points)
        q10 == ProverAllocatePoint(q9, "U", cred.amac.U)
        U  == Len(q10.points)
        q11 == ProverAllocatePoint(q10, "V", cred.amac.V)
        V  == Len(q11.points)
        messages == MessagesFromAttributes(cred.attributes, sp)
        q12 == ProverAllocatePoints(q11, "M", messages)
        M  == Handles(Len(q11.points), Len(messages))
        c1 == Constrain(q12, C_W, << <<w, G_w>>, <<w_prime, G_w_prime>> >>)
        c2 == Constrain(c1, I,
                  << <<one, neg_G_V>>, <<x_0, G_x_0>>, <<x_1, G_x_1>> >> \o Zip(y, G_y))
        c3 == Constrain(c2, V,
                  << <<w, G_w>>, <<x_0, U>>, <<x_1, U>>, <<t, U>> >> \o Zip(y, M))
    IN c3

\* ProofOfIssuance::verify up to verify_compact: the verifier with every
\* secret's label, every public and the three constraints.
IssuanceVerifier(sp, ip, cred) ==
    LET v0 == VerifierNew("2019/1416 anonymous credential", "2019/1416 issuance proof")
        v1 == VerifierAllocateScalar(v0, "w")
        w  == v1.num_scalars
        v2 == VerifierAllocateScalar(v1, "w'")
        w_prime == v2.num_scalars
        v3 == VerifierAllocateScalar(v2, "x_0")
        x_0 == v3.num_scalars
        v4 == VerifierAllocateScalar(v3, "x_1")
        x_1 == v4.num_scalars
        v5 == VerifierAllocateScalars(v4, "y", sp.NUMBER_OF_ATTRIBUTES)
        y  == Handles(v4.num_scalars, sp.NUMBER_OF_ATTRIBUTES)
        v6 == VerifierAllocateScalar(v5, "1")
        one == v6.num_scalars
        v7 == VerifierAllocateScalar(v6, "t")
        t  == v7.num_scalars
        q1 == VerifierAllocatePoint(v7, "-G_V", Compress(PNeg(sp.G_V)))
        neg_G_V == Len(q1.points)
        q2 == VerifierAllocatePoint(q1, "G", Compress(sp.G))
        q3 == VerifierAllocatePoint(q2, "G_w", Compress(sp.G_w))
        G_w == Len(q3.points)
        q4 == VerifierAllocatePoint(q3, "G_w_prime", Compress(sp.G_w_prime))
        G_w_prime == Len(q4.points)
        q5 == VerifierAllocatePoint(q4, "G_x_0", Compress(sp.G_x_0))
        G_x_0 == Len(q5.points)
        q6 == VerifierAllocatePoint(q5, "G_x_1", Compress(sp.G_x_1))
        G_x_1 == Len(q6.points)
        q7 == VerifierAllocatePoints(q6, "G_y", [i \in 1..Len(sp.G_y) |-> Compress(sp.G_y[i])])
        G_y == Handles(Len(q6.points), Len(sp.G_y))
        q8 == VerifierAllocatePoint(q7, "C_W", Compress(ip.C_W))
        C_W == Len(q8.points)
        q9 == VerifierAllocatePoint(q8, "I", Compress(ip.I))
        I  == Len(q9.points)
        q10 == VerifierAllocatePoint(q9, "U", Compress(cred.amac.U))
        U  == Len(q10.points)
        q11 == VerifierAllocatePoint(q10, "V", Compress(cred.amac.V))
        V  == Len(q11.points)
        messages == MessagesFromAttributes(cred.attributes, sp)
        q12 == VerifierAllocatePoints(q11, "M", [i \in 1..Len(messages) |-> Compress(messages[i])])
        M  == Handles(Len(q11.points), Len(messages))
        c1 == Constrain(q12, C_W, << <<w, G_w>>, <<w_prime, G_w_prime>> >>)
        c2 == Constrain(c1, I,
                  << <<one, neg_G_V>>, <<x_0, G_x_0>>, <<x_1, G_x_1>> >> \o Zip(y, G_y))
        c3 == Constrain(c2, V,
                  << <<w, G_w>>, <<x_0, U>>, <<x_1, U>>, <<t, U>> >> \o Zip(y, M))
    IN IF q12.error # "none" THEN q12 ELSE c3

\* From<ProofError> for CredentialError, applied by `?` on allocate_point.
FromProofError(e) == "CredentialError::VerificationFailure"

\* The result of verify_compact handed on as it is, its ProofError unmapped.
PassThrough(r) == r

\* The result of verify_compact with its error swallowed.
SwallowError(r) == "Ok"

\* ProofOfIssuance::verify,
\* .or_else(|_| Err(CredentialError::VerificationFailure)) on verify_compact.
IssuanceOrElse(r) ==
    IF r = "Ok" THEN "Ok" ELSE "CredentialError::VerificationFailure"

\* ProofOfEncryption::verify,
\* .or_else(|_| Err(CredentialError::VerificationFailure)) on verify_compact.
EncryptionOrElse(r) ==
    IF r = "Ok" THEN "Ok" ELSE "CredentialError::VerificationFailure"

\* The Result of ProofOfIssuance::verify: the `?` of a failed allocate_point,
\* else the mapped result of verify_compact.
IssuanceVerifyResult(v, proof, orcl) ==
    IF v.error # "none" THEN FromProofError(v.error)
    ELSE IssuanceOrElse(VerifyCompact(v, proof, orcl))

\* ------------------------------------------------ ProofOfValidCredential

\* z_0 without the negation: t * z.
z_0_Unnegated(cred, z) == (cred.amac.t * z) % L

\* z_0 = (-t * z).reduce().
z_0_(cred, z) == SNeg(cred.amac.t * z)

\* The match with a PublicScalar's message kept in M_i.
M_i_PublicKept(sp, attribute, i) ==
    CASE attribute.kind = "PublicPoint"  -> Identity
      [] attribute.kind = "SecretPoint"  -> attribute.point
      [] attribute.kind = "PublicScalar" -> PMul(sp.G_m[i], attribute.scalar)
      [] attribute.kind = "SecretScalar" -> PMul(sp.G_m[i], attribute.scalar)

\* The match on the attribute's variant: the M_i of attribute i (1-based).
M_i(sp, attribute, i) ==
    CASE attribute.kind = "PublicPoint"  -> Identity
      [] attribute.kind = "SecretPoint"  -> attribute.point
      [] attribute.kind = "PublicScalar" -> Identity
      [] attribute.kind = "SecretScalar" -> PMul(sp.G_m[i], attribute.scalar)

\* H_s_: one (index, basepoint, scalar) per SecretScalar attribute, in order;
\* the index is the 0-based one of the source.
RECURSIVE H_s_From(_, _, _)
H_s_From(sp, attributes, i) ==
    IF i > Len(attributes) THEN <<>>
    ELSE (IF attributes[i].kind = "SecretScalar"
          THEN << <<i - 1, sp.G_m[i], attributes[i].scalar>> >>
          ELSE <<>>) \o H_s_From(sp, attributes, i + 1)

H_s_(sp, attributes) == H_s_From(sp, attributes, 1)

\* C_y_i_: G_y[i] * z + M_i, pushed once per attribute.
C_y_i_(sp, attributes, z) ==
    [i \in 1..Len(attributes) |-> PAdd(PMul(sp.G_y[i], z), M_i(sp, attributes[i], i))]

\* M_i_: declared with_capacity and never pushed to.
M_i_(sp, attributes) == <<>>

C_x_0_(sp, cred, z) == PAdd(PMul(sp.G_x_0, z), cred.amac.U)

\* C_x_1_ over the aMAC's V in place of its U.
C_x_1_OverV(sp, cred, z) == PAdd(PMul(sp.G_x_1, z), PMul(cred.amac.V, cred.amac.t))

C_x_1_(sp, cred, z) == PAdd(PMul(sp.G_x_1, z), PMul(cred.amac.U, cred.amac.t))

\* C_V_ over the base G_x_0 in place of G_V.
C_V_WrongBase(sp, cred, z) == PAdd(PMul(sp.G_x_0, z), cred.amac.V)

C_V_(sp, cred, z) == PAdd(PMul(sp.G_V, z), cred.amac.V)

Z_(ip, z) == PMul(ip.I, z)

\* ProofOfValidCredential::prove, the nonce and the commitments.
PresentationCommitments(sp, ip, cred, z) ==
    [ z_     |-> z,
      z_0_   |-> z_0_(cred, z),
      C_y_i_ |-> C_y_i_(sp, cred.attributes, z),
      M_i_   |-> M_i_(sp, cred.attributes),
      H_s_   |-> H_s_(sp, cred.attributes),
      C_x_0_ |-> C_x_0_(sp, cred, z),
      C_x_1_ |-> C_x_1_(sp, cred, z),
      C_V_   |-> C_V_(sp, cred, z),
      Z_     |-> Z_(ip, z) ]

\* ProofOfValidCredential::prove, the allocations: the prover and the handles.
PresentationAllocations(sp, ip, cred, lc) ==
    LET p0 == ProverNew("2019/1416 anonymous credential", "2019/1416 presentation proof")
        p1 == ProverAllocateScalar(p0, "1", 1)
        p2 == ProverAllocateScalar(p1, "z", lc.z_)
        p3 == ProverAllocateScalar(p2, "z_0", lc.z_0_)
        p4 == ProverAllocateScalar(p3, "t", cred.amac.t)
        p5 == ProverAllocateScalars(p4, "m", [j \in 1..Len(lc.H_s_) |-> lc.H_s_[j][3]])
        q1 == ProverAllocatePoint(p5, "Z", lc.Z_)
        q2 == ProverAllocatePoint(q1, "I", ip.I)
        q3 == ProverAllocatePoint(q2, "C_x_1", lc.C_x_1_)
        q4 == ProverAllocatePoint(q3, "C_x_0", lc.C_x_0_)
        q5 == ProverAllocatePoint(q4, "G_x_0", sp.G_x_0)
        q6 == ProverAllocatePoint(q5, "G_x_1", sp.G_x_1)
        q7 == ProverAllocatePoints(q6, "C_y", lc.C_y_i_)
        q8 == ProverAllocatePoints(q7, "G_y", sp.G_y)
        q9 == ProverAllocatePoints(q8, "M", lc.M_i_)
    IN [ cs    |-> q9,
         one   |-> Len(p1.scalars),
         z     |-> Len(p2.scalars),
         z_0   |-> Len(p3.scalars),
         t     |-> Len(p4.scalars),
         H_s   |-> Handles(Len(p4.scalars), Len(lc.H_s_)),
         Z     |-> Len(q1.points),
         I     |-> Len(q2.points),
         C_x_1 |-> Len(q3.points),
         C_x_0 |-> Len(q4.points),
         G_x_0 |-> Len(q5.points),
         G_x_1 |-> Len(q6.points),
         C_y   |-> Handles(Len(q6.points), Len(lc.C_y_i_)),
         G_y   |-> Handles(Len(q7.points), Len(sp.G_y)),
         M     |-> Handles(Len(q8.points), Len(lc.M_i_)) ]

\* The loop of constraint #3 indexes G_y[i] and M[i] for every i of C_y: an
\* index past the end of either vector aborts the call.
PresentationIndexOutOfBounds(al) ==
    \E i \in 1..Len(al.C_y) : i > Len(al.G_y) \/ i > Len(al.M)

\* ProofOfValidCredential::prove, the constraints (when no index is out of
\* bounds).
PresentationConstraints(al) ==
    LET c1 == Constrain(al.cs, al.Z, << <<al.z, al.I>> >>)
        c2 == Constrain(c1, al.C_x_1,
                        << <<al.t, al.C_x_0>>, <<al.z_0, al.G_x_0>>, <<al.z, al.G_x_1>> >>)
        loop[i \in 0..Len(al.C_y)] ==
            IF i = 0 THEN c2
            ELSE Constrain(loop[i - 1], al.C_y[i], << <<al.z, al.G_y[i]>>, <<al.one, al.M[i]>> >>)
    IN loop[Len(al.C_y)]

\* The ProofOfValidCredential returned.
PresentationResult(compact, lc) ==
    [ proof |-> compact, C_x_0 |-> lc.C_x_0_, C_x_1 |-> lc.C_x_1_,
      C_V |-> lc.C_V_, C_y |-> lc.C_y_i_ ]

\* ------------------------------------------------------ ProofOfEncryption

\* symmetric::Keypair: the secret (a, a0, a1) and pk = a*G_a + a0*G_a0 + a1*G_a1.
SymmetricKeypair(sp, a, a0, a1) ==
    [ secret |-> [a |-> a, a0 |-> a0, a1 |-> a1],
      public |-> [pk |-> PAdd(PAdd(PMul(sp.G_a, a), PMul(sp.G_a0, a0)), PMul(sp.G_a1, a1))] ]

\* The embedding of a 30-byte plaintext block: the halves M1, M2 and the
\* scalar hash m3.
PlaintextM1(plaintext) == PMul(B, (plaintext + 1) % L)

PlaintextM2(plaintext) == PAdd(PMul(B, (plaintext + 2) % L), Unit(1))

PlaintextM3(plaintext) == (2 * plaintext + 1) % L

\* Keypair::encrypt: E1 = (a0 + a1*m3)*M2 and E2 = M1 + a*E1, with M1, M2, m3.
Encrypt(kp, plaintext) ==
    LET M1 == PlaintextM1(plaintext)
        M2 == PlaintextM2(plaintext)
        m3 == PlaintextM3(plaintext)
        E1 == PMul(M2, (kp.secret.a0 + kp.secret.a1 * m3) % L)
    IN [ ciphertext |-> [E1 |-> E1, E2 |-> PAdd(M1, PMul(E1, kp.secret.a))],
         M1 |-> M1, M2 |-> M2, m3 |-> m3 ]

\* z1 without the negation: z * (a0 + a1 * m3).
z1_Unnegated(kp, m3, z) == (z * ((kp.secret.a0 + kp.secret.a1 * m3) % L)) % L

\* z1 = -z * (a0 + a1 * m3).
z1_(kp, m3, z) == (SNeg(z) * ((kp.secret.a0 + kp.secret.a1 * m3) % L)) % L

\* ProofOfEncryption::prove, the commitments to the plaintext.
EncryptionCommitments(sp, enc, kp, z) ==
    LET C_y_2 == PAdd(enc.M2, PMul(sp.G_y[2], z))
    IN [ C_y_1_ |-> PAdd(enc.M1, PMul(sp.G_y[1], z)),
         C_y_2_ |-> C_y_2,
         C_y_3_ |-> PAdd(PMul(sp.G_m[3], enc.m3), PMul(sp.G_y[3], z)),
         C_y_2_prime_ |-> PMul(C_y_2, kp.secret.a1),
         z1_ |-> z1_(kp, enc.m3, z) ]

\* ProofOfEncryption::prove up to prove_compact.
EncryptionProver(sp, enc, kp, z_, lc) ==
    LET p0 == ProverNew("2019/1416 anonymous credentials", "2019/1416 proof of encryption")
        p1 == ProverAllocateScalar(p0, "a", kp.secret.a)
        a  == Len(p1.scalars)
        p2 == ProverAllocateScalar(p1, "a0", kp.secret.a0)
        a0 == Len(p2.scalars)
        p3 == ProverAllocateScalar(p2, "a1", kp.secret.a1)
        a1 == Len(p3.scalars)
        p4 == ProverAllocateScalar(p3, "m3", enc.m3)
        m3 == Len(p4.scalars)
        p5 == ProverAllocateScalar(p4, "z", z_)
        z  == Len(p5.scalars)
        p6 == ProverAllocateScalar(p5, "z1", lc.z1_)
        z1 == Len(p6.scalars)
        q1 == ProverAllocatePoint(p6, "pk", kp.public.pk)
        pk == Len(q1.points)
        q2 == ProverAllocatePoint(q1, "G_a", sp.G_a)
        G_a == Len(q2.points)
        q3 == ProverAllocatePoint(q2, "G_a_0", sp.G_a0)
        G_a_0 == Len(q3.points)
        q4 == ProverAllocatePoint(q3, "G_a_1", sp.G_a1)
        G_a_1 == Len(q4.points)
        q5 == ProverAllocatePoint(q4, "G_y_1", sp.G_y[1])
        G_y_1 == Len(q5.points)
        q6 == ProverAllocatePoint(q5, "G_y_2", sp.G_y[2])
        G_y_2 == Len(q6.points)
        q7 == ProverAllocatePoint(q6, "G_y_3", sp.G_y[3])
        G_y_3 == Len(q7.points)
        q8 == ProverAllocatePoint(q7, "G_m_3", sp.G_m[3])
        G_m_3 == Len(q8.points)
        q9 == ProverAllocatePoint(q8, "C_y_2", lc.C_y_2_)
        C_y_2 == Len(q9.points)
        q10 == ProverAllocatePoint(q9, "C_y_3", lc.C_y_3_)
        C_y_3 == Len(q10.points)
        q11 == ProverAllocatePoint(q10, "C_y_2'", lc.C_y_2_prime_)
        C_y_2_prime == Len(q11.points)
        q12 == ProverAllocatePoint(q11, "C_y_1-E2", PSub(lc.C_y_1_, enc.ciphertext.E2))
        C_y_1_minus_E2 == Len(q12.points)
        q13 == ProverAllocatePoint(q12, "E1", enc.ciphertext.E1)
        E1 == Len(q13.points)
        q14 == ProverAllocatePoint(q13, "-E1", PNeg(enc.ciphertext.E1))
        minus_E1 == Len(q14.points)
        c1 == Constrain(q14, pk, << <<a, G_a>>, <<a0, G_a_0>>, <<a1, G_a_1>> >>)
        c2 == Constrain(c1, C_y_1_minus_E2, << <<z, G_y_1>>, <<a, minus_E1>> >>)
        c3 == Constrain(c2, C_y_2_prime, << <<a1, C_y_2>> >>)
        c4 == Constrain(c3, E1, << <<a0, C_y_2>>, <<m3, C_y_2_prime>>, <<z1, G_y_2>> >>)
        c5 == Constrain(c4, C_y_3, << <<z, G_y_3>>, <<m3, G_m_3>> >>)
    IN c5

\* The ProofOfEncryption returned.
EncryptionResult(compact, kp, lc) ==
    [ proof |-> compact, public_key |-> kp.public,
      C_y_1 |-> lc.C_y_1_, C_y_2 |-> lc.C_y_2_, C_y_3 |-> lc.C_y_3_,
      C_y_2_prime |-> lc.C_y_2_prime_ ]

\* The key stored in the ProofOfEncryption in place of the caller's.
StoredPublicKey(self, public_key) == self.public_key.pk

\* The point allocated under "pk": that of the public_key argument.
VerifyPublicKey(self, public_key) == public_key.pk

\* ProofOfEncryption::verify up to verify_compact.
EncryptionVerifier(self, sp, ciphertext, public_key) ==
    LET v0 == VerifierNew("2019/1416 anonymous credentials", "2019/1416 proof of encryption")
        v1 == VerifierAllocateScalar(v0, "a")
        a  == v1.num_scalars
        v2 == VerifierAllocateScalar(v1, "a0")
        a0 == v2.num_scalars
        v3 == VerifierAllocateScalar(v2, "a1")
        a1 == v3.num_scalars
        v4 == VerifierAllocateScalar(v3, "m3")
        m3 == v4.num_scalars
        v5 == VerifierAllocateScalar(v4, "z")
        z  == v5.num_scalars
        v6 == VerifierAllocateScalar(v5, "z1")
        z1 == v6.num_scalars
        q1 == VerifierAllocatePoint(v6, "pk", Compress(VerifyPublicKey(self, public_key)))
        pk == Len(q1.points)
        q2 == VerifierAllocatePoint(q1, "G_a", Compress(sp.G_a))
        G_a == Len(q2.points)
        q3 == VerifierAllocatePoint(q2, "G_a_0", Compress(sp.G_a0))
        G_a_0 == Len(q3.points)
        q4 == VerifierAllocatePoint(q3, "G_a_1", Compress(sp.G_a1))
        G_a_1 == Len(q4.points)
        q5 == VerifierAllocatePoint(q4, "G_y_1", Compress(sp.G_y[1]))
        G_y_1 == Len(q5.points)
        q6 == VerifierAllocatePoint(q5, "G_y_2", Compress(sp.G_y[2]))
        G_y_2 == Len(q6.points)
        q7 == VerifierAllocatePoint(q6, "G_y_3", Compress(sp.G_y[3]))
        G_y_3 == Len(q7.points)
        q8 == VerifierAllocatePoint(q7, "G_m_3", Compress(sp.G_m[3]))
        G_m_3 == Len(q8.points)
        q9 == VerifierAllocatePoint(q8, "C_y_2", Compress(self.C_y_2))
        C_y_2 == Len(q9.points)
        q10 == VerifierAllocatePoint(q9, "C_y_3", Compress(self.C_y_3))
        C_y_3 == Len(q10.points)
        q11 == VerifierAllocatePoint(q10, "C_y_2'", Compress(self.C_y_2_prime))
        C_y_2_prime == Len(q11.points)
        q12 == VerifierAllocatePoint(q11, "C_y_1-E2", Compress(PSub(self.C_y_1, ciphertext.E2)))
        C_y_1_minus_E2 == Len(q12.points)
        q13 == VerifierAllocatePoint(q12, "E1", Compress(ciphertext.E1))
        E1 == Len(q13.points)
        q14 == VerifierAllocatePoint(q13, "-E1", Compress(PNeg(ciphertext.E1)))
        minus_E1 == Len(q14.points)
        c1 == Constrain(q14, pk, << <<a, G_a>>, <<a0, G_a_0>>, <<a1, G_a_1>> >>)
        c2 == Constrain(c1, C_y_1_minus_E2, << <<z, G_y_1>>, <<a, minus_E1>> >>)
        c3 == Constrain(c2, C_y_2_prime, << <<a1, C_y_2>> >>)
        c4 == Constrain(c3, E1, << <<a0, C_y_2>>, <<m3, C_y_2_prime>>, <<z1, G_y_2>> >>)
        c5 == Constrain(c4, C_y_3, << <<z, G_y_3>>, <<m3, G_m_3>> >>)
    IN IF q14.error # "none" THEN q14 ELSE c5

\* The Result of ProofOfEncryption::verify.
EncryptionVerifyResult(v, proof, orcl) ==
    IF v.error # "none" THEN FromProofError(v.error)
    ELSE EncryptionOrElse(VerifyCompact(v, proof, orcl))

\* ------------------------------------------------------------------ state

VARIABLES
    pc,                 \* where the caller is in its sequence of calls
    secret_key,         \* the issuer's SecretKey
    issuer_parameters,  \* the issuer's IssuerParameters
    credential,         \* the AnonymousCredential issued
    prover,             \* the Prover of the proof being made
    oracle,             \* the prover's query of Transcript::get_challenge
    proof,              \* what prove returned
    verifier,           \* the Verifier of the verify call
    keypair,            \* the symmetric Keypair
    ciphertext,         \* the Ciphertext ProofOfEncryption::prove returned
    locals,             \* the locals of a ProofOfValidCredential::prove under way
    tamper,             \* how the verify call's inputs differ from prove's
    verification        \* what verify returned

vars == <<pc, secret_key, issuer_parameters, credential, prover, oracle, proof,
          verifier, keypair, ciphertext, locals, tamper, verification>>

None == <<>>

Init ==
    /\ pc = "init"
    /\ secret_key = None
    /\ issuer_parameters = None
    /\ credential = None
    /\ prover = None
    /\ oracle = None
    /\ proof = None
    /\ verifier = None
    /\ locals = None
    /\ keypair = None
    /\ ciphertext = None
    /\ tamper = "none"
    /\ verification = "none"

\* SecretKey::generate and IssuerParameters::generate.
KeyGen ==
    /\ pc = "init"
    /\ \E sk \in SecretKeys :
        /\ secret_key' = sk
        /\ issuer_parameters' = IssuerParametersGenerate(system_parameters, sk)
    /\ pc' = "keyed"
    /\ UNCHANGED <<credential, prover, oracle, proof, verifier, locals, tamper, verification, keypair, ciphertext>>

\* Points a caller supplies (U, attribute points).
InputPoints == {B, PAdd(system_parameters.G, B)}

\* Issuer::issue over an attribute vector.
Issue ==
    /\ pc = "keyed"
    /\ \E attributes \in AttributeVectors, t \in InputScalars, U \in InputPoints :
        credential' = IssueCredential(system_parameters, secret_key, attributes, t, U)
    /\ pc' = "issued"
    /\ UNCHANGED <<secret_key, issuer_parameters, prover, oracle, proof, verifier,
                   locals, tamper, verification, keypair, ciphertext>>

\* ProofOfIssuance::prove.
IssuanceProve ==
    /\ pc = "issued"
    /\ LET pr == IssuanceProver(secret_key, system_parameters, issuer_parameters, credential)
       IN \E seed \in Seeds, challenge \in Challenges :
            /\ prover' = pr
            /\ oracle' = [transcript |-> ProverCommit(pr, seed), challenge |-> challenge]
            /\ proof' = ProveCompact(pr, seed, challenge)
    /\ pc' = "issuance_proved"
    /\ UNCHANGED <<secret_key, issuer_parameters, credential, verifier, locals, tamper,
                   verification, keypair, ciphertext>>

\* The inputs of a ProofOfIssuance::verify call: those of prove, or with V
\* replaced by V + G, or with another I.
IssuanceVerifyInputs(how) ==
    [ issuer_parameters |->
        IF how = "I" THEN [issuer_parameters EXCEPT !.I = PAdd(@, system_parameters.G)]
        ELSE issuer_parameters,
      credential |->
        IF how = "V" THEN [credential EXCEPT !.amac.V = PAdd(@, system_parameters.G)]
        ELSE credential ]

\* ProofOfIssuance::verify.
IssuanceVerify ==
    /\ pc = "issuance_proved"
    /\ \E how \in {"none", "V", "I"} :
        LET in == IssuanceVerifyInputs(how)
            v  == IssuanceVerifier(system_parameters, in.issuer_parameters, in.credential)
        IN /\ verifier' = v
           /\ tamper' = how
           /\ verification' = IssuanceVerifyResult(v, proof, oracle)
    /\ pc' = "issuance_verified"
    /\ UNCHANGED <<secret_key, issuer_parameters, credential, prover, oracle, proof, locals,
                   keypair, ciphertext>>

\* ProofOfValidCredential::prove: the nonce z and the commitments.
PresentationCommit ==
    /\ pc = "issued"
    /\ \E z \in InputScalars :
        locals' = PresentationCommitments(system_parameters, issuer_parameters, credential, z)
    /\ pc' = "presentation_committed"
    /\ UNCHANGED <<secret_key, issuer_parameters, credential, prover, oracle, proof,
                   verifier, tamper, verification, keypair, ciphertext>>

\* ProofOfValidCredential::prove: the transcript, the secrets and the publics.
PresentationAllocate ==
    /\ pc = "presentation_committed"
    /\ prover' = PresentationAllocations(system_parameters, issuer_parameters, credential,
                                         locals).cs
    /\ pc' = "presentation_allocated"
    /\ UNCHANGED <<secret_key, issuer_parameters, credential, oracle, proof, verifier,
                   locals, tamper, verification, keypair, ciphertext>>

\* ProofOfValidCredential::prove: the constraints, prove_compact and the
\* return; or the abort on an index out of bounds.
PresentationConstrain ==
    /\ pc = "presentation_allocated"
    /\ LET al == PresentationAllocations(system_parameters, issuer_parameters, credential,
                                         locals)
       IN IF PresentationIndexOutOfBounds(al)
          THEN /\ pc' = "presentation_panicked"
               /\ UNCHANGED <<prover, oracle, proof>>
          ELSE LET pr == PresentationConstraints(al)
               IN \E seed \in Seeds, challenge \in Challenges :
                    /\ prover' = pr
                    /\ oracle' = [transcript |-> ProverCommit(pr, seed),
                                  challenge |-> challenge]
                    /\ proof' = PresentationResult(ProveCompact(pr, seed, challenge), locals)
                    /\ pc' = "presentation_proved"
    /\ UNCHANGED <<secret_key, issuer_parameters, credential, verifier, locals, tamper,
                   verification, keypair, ciphertext>>

\* symmetric::Keypair generation.
SymmetricKeyGen ==
    /\ pc = "init"
    /\ \E a \in InputScalars, a0 \in InputScalars, a1 \in InputScalars :
        keypair' = SymmetricKeypair(system_parameters, a, a0, a1)
    /\ pc' = "symmetric_keyed"
    /\ UNCHANGED <<secret_key, issuer_parameters, credential, prover, oracle, proof,
                   verifier, ciphertext, locals, tamper, verification>>

\* ProofOfEncryption::prove.
EncryptionProve ==
    /\ pc = "symmetric_keyed"
    /\ \E plaintext \in 0..MaxPlaintext, z \in InputScalars :
        LET enc == Encrypt(keypair, plaintext)
            lc  == EncryptionCommitments(system_parameters, enc, keypair, z)
            pr  == EncryptionProver(system_parameters, enc, keypair, z, lc)
        IN \E seed \in Seeds, challenge \in Challenges :
            /\ prover' = pr
            /\ oracle' = [transcript |-> ProverCommit(pr, seed), challenge |-> challenge]
            /\ proof' = EncryptionResult(ProveCompact(pr, seed, challenge), keypair, lc)
            /\ ciphertext' = enc.ciphertext
            /\ locals' = [z_ |-> z, plaintext |-> plaintext]
    /\ pc' = "encryption_proved"
    /\ UNCHANGED <<secret_key, issuer_parameters, credential, verifier, keypair, tamper,
                   verification>>

\* The ProofOfEncryption handed to verify: the one prove returned, or with its
\* C_y_2_prime replaced by C_y_2_prime + G.
EncryptionVerifySelf(how) ==
    IF how = "C_y_2_prime"
    THEN [proof EXCEPT !.C_y_2_prime = PAdd(@, system_parameters.G)]
    ELSE proof

\* ProofOfEncryption::verify.
EncryptionVerify ==
    /\ pc = "encryption_proved"
    /\ \E how \in {"none", "C_y_2_prime"} :
        LET self == EncryptionVerifySelf(how)
            v == EncryptionVerifier(self, system_parameters, ciphertext, keypair.public)
        IN /\ verifier' = v
           /\ tamper' = how
           /\ verification' = EncryptionVerifyResult(v, self.proof, oracle)
    /\ pc' = "encryption_verified"
    /\ UNCHANGED <<secret_key, issuer_parameters, credential, prover, oracle, proof, locals,
                   keypair, ciphertext>>

Next ==
    \/ KeyGen
    \/ Issue
    \/ IssuanceProve
    \/ IssuanceVerify
    \/ PresentationCommit
    \/ PresentationAllocate
    \/ PresentationConstrain
    \/ SymmetricKeyGen
    \/ EncryptionProve
    \/ EncryptionVerify

Spec == Init /\ [][Next]_vars

\* ----------------------------------------------------------------- claims

Failure == "CredentialError::VerificationFailure"

\* Whether the prover's assignment satisfies constraint c: lhs = sum s_i * B_i.
Satisfied(pr, c) ==
    pr.points[c.lhs] =
        MultiscalarMul([j \in 1..Len(c.rhs) |-> pr.scalars[c.rhs[j][1]]],
                       [j \in 1..Len(c.rhs) |-> pr.points[c.rhs[j][2]]])

\* The (kind, label) of every entry a prover or verifier appended after the
\* two domain separators.
Labels(transcript) ==
    [i \in 1..(Len(transcript) - 2) |-> <<transcript[i + 2][1], transcript[i + 2][2]>>]

IsScalarVar(entry) == entry[1] = "scvar"

\* The labels of the scalar variables, by handle.
ScalarLabels(transcript) ==
    LET sc == SelectSeq(transcript, IsScalarVar) IN [i \in 1..Len(sc) |-> sc[i][2]]

\* A constraint with every handle replaced by its label.
Labelled(cs, c) ==
    [ lhs |-> cs.point_labels[c.lhs],
      rhs |-> [j \in 1..Len(c.rhs) |->
                 <<ScalarLabels(cs.transcript)[c.rhs[j][1]], cs.point_labels[c.rhs[j][2]]>>] ]

LabelledConstraints(cs) == [i \in 1..Len(cs.constraints) |-> Labelled(cs, cs.constraints[i])]

Repeat(x, k) == [i \in 1..k |-> x]

InPresentation ==
    pc \in {"presentation_committed", "presentation_allocated", "presentation_proved",
            "presentation_panicked"}

\* What a prove call handed back to its caller.
ProveOutcome ==
    CASE pc \in {"issuance_proved", "presentation_proved", "encryption_proved"} -> "proof"
      [] pc = "presentation_panicked" -> "abort"
      [] OTHER -> "none"

\* C1: for a credential over n attributes issued under the issuer's key,
\* ProofOfIssuance::verify of what ProofOfIssuance::prove returned, with the
\* same parameters and credential, returns Ok.
C1_IssuanceRoundTrip ==
    (pc = "issuance_verified" /\ tamper = "none" /\ Len(credential.attributes) = N)
        => verification = "Ok"

\* C2: ProofOfEncryption::verify of what ProofOfEncryption::prove returned,
\* with the returned ciphertext and the keypair's public key, returns Ok, and
\* the honest witness satisfies each of the five constraints.
C2_EncryptionRoundTrip ==
    /\ pc \in {"encryption_proved", "encryption_verified"} =>
          /\ Len(prover.constraints) = 5
          /\ \A c \in 1..Len(prover.constraints) : Satisfied(prover, prover.constraints[c])
    /\ (pc = "encryption_verified" /\ tamper = "none") => verification = "Ok"

C2_Witness ==
    /\ pc = "encryption_verified"
    /\ tamper = "none"
    /\ verification = "Ok"
    /\ oracle.challenge # 0
    /\ locals.z_ # 0
    /\ keypair.secret.a # 0 /\ keypair.secret.a0 # 0 /\ keypair.secret.a1 # 0

\* C3: for a credential over n >= 1 attributes ProofOfValidCredential::prove
\* does not abort, and allocates n points labelled "M".
C3_PresentationCompletes ==
    (InPresentation /\ Len(credential.attributes) = N) =>
        /\ pc # "presentation_panicked"
        /\ pc = "presentation_allocated" =>
              Len(SelectSeq(Labels(prover.transcript), LAMBDA e : e = <<"ptvar", "M">>)) = N

\* C4: ProofOfIssuance::verify with V replaced by V + G, or with another I
\* than the one proved with, never returns Ok.
C4_IssuanceRejectsTampering ==
    (pc = "issuance_verified" /\ tamper \in {"V", "I"}) => verification = Failure

C4_Witness ==
    /\ pc = "issuance_verified"
    /\ tamper = "V"
    /\ verification = Failure
    /\ IssuanceVerifyResult(
          IssuanceVerifier(system_parameters, issuer_parameters, credential), proof, oracle)
         = "Ok"

\* C5: ProofOfEncryption::verify of a proof whose C_y_2_prime was replaced by
\* C_y_2_prime + G, with the original ciphertext and public key, never
\* returns Ok.
C5_EncryptionRejectsTampering ==
    (pc = "encryption_verified" /\ tamper = "C_y_2_prime") => verification = Failure

C5_Witness ==
    /\ pc = "encryption_verified"
    /\ tamper = "C_y_2_prime"
    /\ verification = Failure
    /\ oracle.challenge # 0
    /\ EncryptionVerifyResult(
          EncryptionVerifier(proof, system_parameters, ciphertext, keypair.public),
          proof.proof, oracle) = "Ok"

\* C6: a verify call that does not return Ok returns exactly
\* CredentialError::VerificationFailure.
C6_SingleErrorSurface ==
    pc \in {"issuance_verified", "encryption_verified"} =>
        verification \in {"Ok", Failure}

C6_Witness ==
    /\ pc \in {"issuance_verified", "encryption_verified"}
    /\ verification = Failure
    /\ verifier.error = "none"

\* C7: with an attribute vector whose length differs from
\* NUMBER_OF_ATTRIBUTES, the prove calls hand BadAttributeCount to their
\* caller; they neither abort nor return a proof.
C7_BadAttributeCountReported ==
    (ProveOutcome # "none" /\ pc # "encryption_proved"
        /\ Len(credential.attributes) # N)
        => ProveOutcome = "CredentialError::BadAttributeCount"

\* The y-weighted sum of the full messages of the revealed attributes.
RevealedSum ==
    LET messages == MessagesFromAttributes(credential.attributes, system_parameters)
    IN MultiscalarMul(
          [i \in 1..Len(messages) |->
              IF credential.attributes[i].kind \in {"PublicScalar", "PublicPoint"}
              THEN secret_key.y[i] ELSE 0],
          messages)

\* x_0*C_x0 + x_1*C_x1 + sum y_i*C_y[i] - C_V.
CommitmentSum ==
    PSub(PAdd(PAdd(PMul(locals.C_x_0_, secret_key.x_0), PMul(locals.C_x_1_, secret_key.x_1)),
              MultiscalarMul(secret_key.y, locals.C_y_i_)),
         locals.C_V_)

\* C8 as stated: Z = z*I = x_0*C_x0 + x_1*C_x1 + sum y_i*C_y[i] - C_V.
C8_AuxiliaryPointOriginal ==
    (InPresentation /\ Len(credential.attributes) = N) =>
        /\ locals.Z_ = PMul(issuer_parameters.I, locals.z_)
        /\ locals.Z_ = CommitmentSum

\* C8 as amended: for a credential over n attributes,
\* Z = z*I = x_0*C_x0 + x_1*C_x1 + sum y_i*C_y[i] - C_V + w*G
\*           + the sum of y_i*M_i over the revealed attributes i.
C8_AuxiliaryPoint ==
    (InPresentation /\ Len(credential.attributes) = N) =>
        /\ locals.Z_ = PMul(issuer_parameters.I, locals.z_)
        /\ locals.Z_ = PAdd(CommitmentSum,
                            PAdd(PMul(system_parameters.G, secret_key.w), RevealedSum))

C8_Witness ==
    /\ pc = "presentation_committed"
    /\ Len(credential.attributes) = N
    /\ locals.z_ # 0
    /\ secret_key.w # 0
    /\ credential.amac.t # 0
    /\ locals.Z_ # CommitmentSum

\* The labels ProofOfIssuance appends, in order, for n attributes.
IssuanceLabels ==
    << <<"scvar", "w">>, <<"scvar", "w'">>, <<"scvar", "x_0">>, <<"scvar", "x_1">> >>
    \o Repeat(<<"scvar", "y">>, N)
    \o << <<"scvar", "1">>, <<"scvar", "t">>,
          <<"ptvar", "-G_V">>, <<"ptvar", "G">>, <<"ptvar", "G_w">>,
          <<"ptvar", "G_w_prime">>, <<"ptvar", "G_x_0">>, <<"ptvar", "G_x_1">> >>
    \o Repeat(<<"ptvar", "G_y">>, N)
    \o << <<"ptvar", "C_W">>, <<"ptvar", "I">>, <<"ptvar", "U">>, <<"ptvar", "V">> >>
    \o Repeat(<<"ptvar", "M">>, N)

\* The three constraints of ProofOfIssuance, by label, for n attributes.
IssuanceConstraints ==
    << [lhs |-> "C_W", rhs |-> << <<"w", "G_w">>, <<"w'", "G_w_prime">> >>],
       [lhs |-> "I",
        rhs |-> << <<"1", "-G_V">>, <<"x_0", "G_x_0">>, <<"x_1", "G_x_1">> >>
                \o Repeat(<<"y", "G_y">>, N)],
       [lhs |-> "V",
        rhs |-> << <<"w", "G_w">>, <<"x_0", "U">>, <<"x_1", "U">>, <<"t", "U">> >>
                \o Repeat(<<"y", "M">>, N)] >>

\* C9: for n attributes and n y's, ProofOfIssuance::prove and ::verify append
\* the same labels in the stated order and add the same three constraints,
\* term by term.
C9_IssuanceTranscriptAgreement ==
    (pc = "issuance_verified" /\ Len(secret_key.y) = N /\ Len(credential.attributes) = N) =>
        /\ Labels(prover.transcript) = IssuanceLabels
        /\ Labels(verifier.transcript) = IssuanceLabels
        /\ prover.transcript[1] = verifier.transcript[1]
        /\ prover.transcript[2] = verifier.transcript[2]
        /\ LabelledConstraints(prover) = IssuanceConstraints
        /\ LabelledConstraints(verifier) = IssuanceConstraints
        /\ prover.constraints = verifier.constraints
        /\ tamper = "none" => prover.transcript = verifier.transcript

C9_Witness ==
    /\ pc = "issuance_verified"
    /\ Len(credential.attributes) = N
    /\ tamper = "none"
    /\ Len(prover.transcript) = 2 + 16 + 3 * N
    /\ Len(verifier.constraints) = 3

\* The H_s_ entries recorded for the attribute of 0-based index i.
H_s_Entries(i) == SelectSeq(locals.H_s_, LAMBDA e : e[1] = i)

\* C10: per attribute i, a PublicPoint or PublicScalar gives
\* C_y[i] = z*G_y[i] and no H_s entry; SecretPoint(P) gives C_y[i] = z*G_y[i] + P
\* and no H_s entry; SecretScalar(m) gives C_y[i] = z*G_y[i] + m*G_m[i] and the
\* one entry (i, G_m[i], m); as many "m" scalars are allocated as there are
\* SecretScalar attributes.
C10_MessageVectorRule ==
    InPresentation =>
        /\ Len(locals.C_y_i_) = Len(credential.attributes)
        /\ \A i \in 1..Len(credential.attributes) :
            LET attribute == credential.attributes[i]
                zG_y == PMul(system_parameters.G_y[i], locals.z_)
            IN CASE attribute.kind \in {"PublicPoint", "PublicScalar"} ->
                      /\ locals.C_y_i_[i] = zG_y
                      /\ H_s_Entries(i - 1) = <<>>
                 [] attribute.kind = "SecretPoint" ->
                      /\ locals.C_y_i_[i] = PAdd(zG_y, attribute.point)
                      /\ H_s_Entries(i - 1) = <<>>
                 [] attribute.kind = "SecretScalar" ->
                      /\ locals.C_y_i_[i] =
                            PAdd(zG_y, PMul(system_parameters.G_m[i], attribute.scalar))
                      /\ H_s_Entries(i - 1) =
                            << <<i - 1, system_parameters.G_m[i], attribute.scalar>> >>
        /\ pc # "presentation_committed" =>
              Len(SelectSeq(Labels(prover.transcript), LAMBDA e : e = <<"scvar", "m">>))
                = Cardinality({i \in 1..Len(credential.attributes) :
                                  credential.attributes[i].kind = "SecretScalar"})

C10_Witness ==
    /\ pc = "presentation_allocated"
    /\ Len(credential.attributes) = N
    /\ locals.z_ # 0
    /\ Len(locals.H_s_) = 1
    /\ \E i \in 1..N : credential.attributes[i].kind = "PublicScalar"
    /\ \E i \in 1..N : credential.attributes[i].kind = "SecretPoint"

\* t*C_x0 + z_0*G_x0 + z*G_x1 over the values prove computed.
Relation2Rhs ==
    PAdd(PAdd(PMul(locals.C_x_0_, credential.amac.t),
              PMul(system_parameters.G_x_0, locals.z_0_)),
         PMul(system_parameters.G_x_1, locals.z_))

\* C11: for every t, z and U, with the z_0, C_x0 and C_x1 that
\* ProofOfValidCredential::prove computes, C_x1 = t*C_x0 + z_0*G_x0 + z*G_x1;
\* z_0 = 0 when t = 0; and the assignment of a completed prove satisfies the
\* second constraint added.
C11_PresentationRelation2 ==
    InPresentation =>
        /\ locals.C_x_0_ = PAdd(PMul(system_parameters.G_x_0, locals.z_), credential.amac.U)
        /\ locals.C_x_1_ = PAdd(PMul(system_parameters.G_x_1, locals.z_),
                                PMul(credential.amac.U, credential.amac.t))
        /\ (locals.z_0_ + credential.amac.t * locals.z_) % L = 0
        /\ locals.C_x_1_ = Relation2Rhs
        /\ credential.amac.t = 0 => locals.z_0_ = 0
        /\ pc = "presentation_proved" =>
              /\ Labelled(prover, prover.constraints[2]) =
                    [lhs |-> "C_x_1",
                     rhs |-> << <<"t", "C_x_0">>, <<"z_0", "G_x_0">>, <<"z", "G_x_1">> >>]
              /\ Satisfied(prover, prover.constraints[2])

C11_Witness ==
    /\ pc = "presentation_proved"
    /\ credential.amac.t # 0
    /\ locals.z_ # 0
    /\ locals.z_0_ # 0
    /\ locals.C_x_1_ # PMul(locals.C_x_0_, credential.amac.t)

\* Whether ProofOfValidCredential::prove has ended, by a return or by an abort.
PresentationEnded == pc \in {"presentation_proved", "presentation_panicked"}

\* The constraints of the prover that have the scalar variable s in a term.
ConstraintsWith(s) ==
    {c \in 1..Len(prover.constraints) :
        \E k \in 1..Len(prover.constraints[c].rhs) : prover.constraints[c].rhs[k][1] = s}

\* C12: for each SecretScalar attribute i, the scalar variable allocated
\* under "m" for it occurs in exactly one constraint of
\* ProofOfValidCredential::prove, and that constraint is
\* C_y[i] = z*G_y[i] + m_i*G_m[i].
C12_SecretScalarBinding ==
    PresentationEnded =>
        LET al == PresentationAllocations(system_parameters, issuer_parameters, credential,
                                          locals)
        IN \A j \in 1..Len(locals.H_s_) :
            LET i == locals.H_s_[j][1] + 1
            IN /\ Cardinality(ConstraintsWith(al.H_s[j])) = 1
               /\ \A c \in ConstraintsWith(al.H_s[j]) :
                    LET rhs == prover.constraints[c].rhs
                    IN /\ prover.constraints[c].lhs = al.C_y[i]
                       /\ Len(rhs) = 2
                       /\ rhs[1] = <<al.z, al.G_y[i]>>
                       /\ rhs[2][1] = al.H_s[j]
                       /\ prover.points[rhs[2][2]] = system_parameters.G_m[i]

\* The attributes 0, 1, 2 of a credential over the encryption intermediates
\* (M1, M2, m3) of a plaintext.
LinkedAttributes(plaintext) ==
    << SecretPoint(PlaintextM1(plaintext)), SecretPoint(PlaintextM2(plaintext)),
       SecretScalar(PlaintextM3(plaintext)) >>

\* What ProofOfEncryption::prove is in the middle of or has returned.
InEncryption == pc \in {"encryption_proved", "encryption_verified"}

\* The commitments C_y_1, C_y_2, C_y_3 of the ProofOfEncryption are the C_y a
\* presentation computes with the same z over the linked attributes.
EncryptionCommitmentsLinked ==
    InEncryption =>
        LET C_y == C_y_i_(system_parameters, LinkedAttributes(locals.plaintext), locals.z_)
        IN /\ proof.C_y_1 = C_y[1]
           /\ proof.C_y_2 = C_y[2]
           /\ proof.C_y_3 = C_y[3]

\* The names of what the caller of ProofOfValidCredential::prove holds of the
\* call once it ended: the fields of the struct returned, nothing after an
\* abort.
PresentationReturned == IF pc = "presentation_proved" THEN DOMAIN proof ELSE {}

\* C13: with the same nonce z and the attributes 0, 1, 2 of the credential
\* being SecretPoint(M1), SecretPoint(M2), SecretScalar(m3), the encryption
\* proof's C_y_1, C_y_2, C_y_3 are the presentation's C_y[0], C_y[1], C_y[2];
\* and once ProofOfValidCredential::prove has ended its caller holds the
\* nonce z.
C13_EncryptionLinkage ==
    /\ EncryptionCommitmentsLinked
    /\ PresentationEnded => "z" \in PresentationReturned

\* The credential with another aMAC value V and the same t, U and attributes.
CredentialOtherV == [credential EXCEPT !.amac.V = PAdd(@, system_parameters.G)]

\* The locals of ProofOfValidCredential::prove over CredentialOtherV with the
\* same nonce.
LocalsOtherV ==
    PresentationCommitments(system_parameters, issuer_parameters, CredentialOtherV,
                            locals.z_)

\* C14: for a credential that differs only in amac.V, with the same nonce
\* and the same prover randomness, ProofOfValidCredential::prove computes the
\* same locals but C_V, appends the same transcript, ends the same way, adds
\* the same constraints and returns the same compact proof, C_x0, C_x1 and
\* C_y; only C_V differs, and no point labelled C_V is allocated or
\* constrained.
C14_PresentationIndependentOfV ==
    InPresentation =>
        LET al  == PresentationAllocations(system_parameters, issuer_parameters, credential,
                                           locals)
            al2 == PresentationAllocations(system_parameters, issuer_parameters,
                                           CredentialOtherV, LocalsOtherV)
        IN /\ LocalsOtherV = [locals EXCEPT !.C_V_ = LocalsOtherV.C_V_]
           /\ LocalsOtherV.C_V_ # locals.C_V_
           /\ al2 = al
           /\ \A i \in 1..Len(al.cs.points) : al.cs.point_labels[i] # "C_V"
           /\ PresentationIndexOutOfBounds(al2) = PresentationIndexOutOfBounds(al)
           /\ ~PresentationIndexOutOfBounds(al) =>
                /\ PresentationConstraints(al2) = PresentationConstraints(al)
                /\ \A seed \in Seeds, challenge \in Challenges :
                     LET pr  == PresentationConstraints(al)
                         pr2 == PresentationConstraints(al2)
                     IN /\ ProverCommit(pr2, seed) = ProverCommit(pr, seed)
                        /\ PresentationResult(ProveCompact(pr2, seed, challenge), LocalsOtherV)
                             = [PresentationResult(ProveCompact(pr, seed, challenge), locals)
                                   EXCEPT !.C_V = LocalsOtherV.C_V_]
           /\ pc = "presentation_proved" =>
                /\ prover = PresentationConstraints(al2)
                /\ \A c \in 1..Len(prover.constraints) :
                     /\ prover.point_labels[prover.constraints[c].lhs] # "C_V"
                     /\ \A k \in 1..Len(prover.constraints[c].rhs) :
                          prover.point_labels[prover.constraints[c].rhs[k][2]] # "C_V"

C14_Witness ==
    /\ pc = "presentation_proved"
    /\ credential.amac.t # 0
    /\ locals.z_ # 0
    /\ proof.C_V # LocalsOtherV.C_V_
    /\ proof = [PresentationResult(proof.proof, LocalsOtherV) EXCEPT !.C_V = proof.C_V]

\* Another symmetric public key than pk.
OtherPublicKey(public_key) == [pk |-> PAdd(public_key.pk, system_parameters.G_a)]

\* The ProofOfEncryption handed to verify, with another public_key stored.
SelfOtherStoredKey ==
    [EncryptionVerifySelf(tamper) EXCEPT !.public_key = OtherPublicKey(@)]

\* The points a verifier allocated under a label.
PointsLabelled(v, label) ==
    {v.points[i] : i \in {j \in 1..Len(v.points) : v.point_labels[j] = label}}

\* C15: ProofOfEncryption::verify of a bundle that differs only in its
\* stored public_key, with the same parameters, ciphertext and public_key
\* argument, builds the same verifier and returns the same result; the point
\* under "pk", the left side of constraint 1, is the argument's pk, also when
\* the argument is not the stored key.
C15_VerifyIndependentOfStoredKey ==
    pc = "encryption_verified" =>
        LET v2 == EncryptionVerifier(SelfOtherStoredKey, system_parameters, ciphertext,
                                     keypair.public)
            v3 == EncryptionVerifier(EncryptionVerifySelf(tamper), system_parameters,
                                     ciphertext, OtherPublicKey(keypair.public))
        IN /\ SelfOtherStoredKey.public_key # EncryptionVerifySelf(tamper).public_key
           /\ v2 = verifier
           /\ EncryptionVerifyResult(v2, SelfOtherStoredKey.proof, oracle) = verification
           /\ PointsLabelled(verifier, "pk") = {Compress(keypair.public.pk)}
           /\ verifier.point_labels[verifier.constraints[1].lhs] = "pk"
           /\ PointsLabelled(v3, "pk") = {Compress(OtherPublicKey(keypair.public).pk)}
           /\ EncryptionVerifyResult(v3, proof.proof, oracle) = Failure

C15_Witness ==
    /\ pc = "encryption_verified"
    /\ tamper = "none"
    /\ verification = "Ok"
    /\ keypair.secret.a # 0
    /\ oracle.challenge # 0
    /\ SelfOtherStoredKey.public_key # keypair.public
    /\ SelfOtherStoredKey.proof = proof.proof

====
